---- MODULE Spec2Model ----
(***************************************************************************)
(* A model of the CRIMAC dataloader: the Cruise data source               *)
(* (src/cruise/base.py), and the patch cropper and the samplers that the  *)
(* tests of src/test/test_samplers.py exercise.                           *)
(*                                                                         *)
(* Python values are tagged records, so that values of different Python   *)
(* types can be told apart:                                                *)
(*   None            [none |-> TRUE]                                       *)
(*   an int n        [int |-> n]                                           *)
(*   a list l        [list |-> l]      (l a sequence)                      *)
(*   a raised error  [raise |-> "FileNotFoundError"]                       *)
(*   a returned v    [value |-> v]                                         *)
(***************************************************************************)
EXTENDS Integers, Sequences, FiniteSets, TLC

VARIABLES
    cruise,       \* the Cruise object: its _data, _annotations, _school_box_df
    call,         \* the last operation invoked, with its arguments
    ret,          \* what that operation returned or raised
    cruise_list,  \* the samplers' cruise_list (each cruise by its extents)
    sampler,      \* the sampler object
    descriptor    \* the descriptors the sampler has produced so far

vars == <<cruise, call, ret, cruise_list, sampler, descriptor>>

----------------------------------------------------------------------------
(* Bounds of the model. *)

\* num_pings and num_ranges of a cruise are in 1..MaxExtent
MaxExtent == 2
\* the school boxes' and their query windows' indices are in 0..MaxIdx (+1)
MaxIdx == 1
\* the category axis of an annotation volume has at most MaxCats labels
MaxCats == 3

----------------------------------------------------------------------------
(* Python values. *)

None == [none |-> TRUE]
PyInt(n) == [int |-> n]
PyList(l) == [list |-> l]
Raise(exc) == [raise |-> exc]
Return(v) == [value |-> v]

Raised(r) == "raise" \in DOMAIN r
Returned(r) == "value" \in DOMAIN r
IsInt(x) == "int" \in DOMAIN x

Min(a, b) == IF a < b THEN a ELSE b
Max(a, b) == IF a > b THEN a ELSE b

Range(s) == {s[i] : i \in DOMAIN s}

\* the sequences over S of length at most n without a repeated element
RECURSIVE UniqueSeqs(_, _)
UniqueSeqs(S, n) ==
    IF n = 0 THEN {<<>>}
    ELSE LET shorter == UniqueSeqs(S, n - 1)
         IN  shorter \cup UNION {{Append(s, x) : x \in S \ Range(s)} : s \in shorter}

\* Python's sorted(): insertion of each element into an ascending list
RECURSIVE Insert(_, _)
Insert(x, s) ==
    IF s = <<>> THEN <<x>>
    ELSE IF x <= Head(s) THEN <<x>> \o s
    ELSE <<Head(s)>> \o Insert(x, Tail(s))

RECURSIVE sorted(_)
sorted(s) == IF s = <<>> THEN <<>> ELSE Insert(Head(s), sorted(Tail(s)))

\* the indices (0-based) that slice(start, stop) selects on an axis of n
\* elements: a negative bound counts from the end, and both are clamped
SliceBound(b, n, default) ==
    IF b = None THEN default
    ELSE IF b.int < 0 THEN Max(b.int + n, 0)
    ELSE Min(b.int, n)

slice(start, stop, n) ==
    LET lo == SliceBound(start, n, 0)
        hi == SliceBound(stop, n, n)
    IN  [i \in 1..Max(hi - lo, 0) |-> lo + i - 1]

\* xarray's .sel(axis=labels): a label that is not on the axis is a KeyError;
\* a scalar label drops the dimension, a list keeps its own order
SelLabels(labels) == IF IsInt(labels) THEN <<labels.int>> ELSE labels.list

SelKnown(axis, labels) == Range(SelLabels(labels)) \subseteq Range(axis)

----------------------------------------------------------------------------
(* The Cruise. *)

\* Cruise._read_zarr_data and Cruise._read_csv_data: the file's content, or
\* None for an optional file that is missing; a required one raises
ReadData(file, required) ==
    IF file # None THEN Return(file)
    ELSE IF required THEN Raise("FileNotFoundError")
    ELSE Return(None)

\* Cruise.__init__: the object, when no read raised
Constructed(config, files) ==
    /\ Returned(ReadData(files.data, TRUE))
    /\ Returned(ReadData(files.annotations, config.require_annotations))
    /\ Returned(ReadData(files.school_boxes, config.require_school_boxes))

NewCruise(config, files) ==
    [data |-> ReadData(files.data, TRUE).value,
     annotations |-> ReadData(files.annotations, config.require_annotations).value,
     school_box_df |-> ReadData(files.school_boxes, config.require_school_boxes).value]

frequencies(self) == self.data.frequency

\* num_pings() reading the size of the range axis
num_pings_of_range(self) == self.data.range

num_pings(self) == self.data.ping_time

\* num_ranges() reading the size of the ping axis
num_ranges_of_ping_time(self) == self.data.ping_time

num_ranges(self) == self.data.range

annotations_available(self) == self.annotations # None
school_boxes_available(self) == self.school_box_df # None

\* categories() without its sort
categories_unsorted(self) ==
    IF self.annotations = None THEN Raise("FileNotFoundError")
    ELSE Return(SelectSeq(self.annotations.category, LAMBDA cat : cat # -1))

categories(self) ==
    IF self.annotations = None THEN Raise("FileNotFoundError")
    ELSE Return(sorted(SelectSeq(self.annotations.category, LAMBDA cat : cat # -1)))

\* the selection a frequencies= or categories= argument names
Selected(arg, default) == IF arg = None THEN PyList(default) ELSE arg

\* get_sv_slice with the ping axis cut by the range bounds
get_sv_slice_swapped(self, start_ping, end_ping, start_range, end_range, freqs) ==
    LET sr == IF start_range = None THEN PyInt(0) ELSE start_range
        er == IF end_range = None THEN PyInt(num_ranges(self) + 1) ELSE end_range
        fr == Selected(freqs, frequencies(self))
    IN  IF ~SelKnown(frequencies(self), fr) THEN Raise("KeyError")
        ELSE Return([frequency |-> fr,
                     ping_time |-> slice(sr, er, num_pings(self)),
                     range |-> slice(sr, er, num_ranges(self))])

get_sv_slice(self, start_ping, end_ping, start_range, end_range, freqs) ==
    LET sr == IF start_range = None THEN PyInt(0) ELSE start_range
        er == IF end_range = None THEN PyInt(num_ranges(self) + 1) ELSE end_range
        fr == Selected(freqs, frequencies(self))
    IN  IF ~SelKnown(frequencies(self), fr) THEN Raise("KeyError")
        ELSE Return([frequency |-> fr,
                     ping_time |-> slice(start_ping, end_ping, num_pings(self)),
                     range |-> slice(sr, er, num_ranges(self))])

\* get_annotation_slice with the default end_range one bin short
get_annotation_slice_short(self, start_ping, end_ping, start_range, end_range, cats) ==
    LET sr == IF start_range = None THEN PyInt(0) ELSE start_range
        er == IF end_range = None THEN PyInt(num_ranges(self) - 1) ELSE end_range
        defaulted == IF cats = None THEN categories(self) ELSE Return(None)
        ca == Selected(cats, defaulted.value)
    IN  IF Raised(defaulted) THEN defaulted
        ELSE IF self.annotations = None THEN Raise("AttributeError")
        ELSE IF ~SelKnown(self.annotations.category, ca) THEN Raise("KeyError")
        ELSE Return([category |-> ca,
                     ping_time |-> slice(start_ping, end_ping, num_pings(self)),
                     range |-> slice(sr, er, num_ranges(self))])

get_annotation_slice(self, start_ping, end_ping, start_range, end_range, cats) ==
    LET sr == IF start_range = None THEN PyInt(0) ELSE start_range
        er == IF end_range = None THEN PyInt(num_ranges(self)) ELSE end_range
        defaulted == IF cats = None THEN categories(self) ELSE Return(None)
        ca == Selected(cats, defaulted.value)
    IN  IF Raised(defaulted) THEN defaulted
        ELSE IF self.annotations = None THEN Raise("AttributeError")
        ELSE IF ~SelKnown(self.annotations.category, ca) THEN Raise("KeyError")
        ELSE Return([category |-> ca,
                     ping_time |-> slice(start_ping, end_ping, num_pings(self)),
                     range |-> slice(sr, er, num_ranges(self))])

\* df.loc[mask] keeps the rows of the mask, in the table's order.
\* The four window filters of get_school_boxes, each applied when its bound
\* is given:

\* the start_ping filter with a strict comparison
AfterStartPing_strict(df, start_ping) ==
    IF start_ping = None THEN df
    ELSE [rows |-> SelectSeq(df.rows, LAMBDA row : row.endpingindex > start_ping.int)]

AfterStartPing(df, start_ping) ==
    IF start_ping = None THEN df
    ELSE [rows |-> SelectSeq(df.rows, LAMBDA row : row.endpingindex >= start_ping.int)]

BeforeEndPing(df, end_ping) ==
    IF end_ping = None THEN df
    ELSE [rows |-> SelectSeq(df.rows, LAMBDA row : row.startpingindex < end_ping.int)]

AfterStartRange(df, start_range) ==
    IF start_range = None THEN df
    ELSE [rows |-> SelectSeq(df.rows, LAMBDA row : row.lowerdeptindex >= start_range.int)]

BeforeEndRange(df, end_range) ==
    IF end_range = None THEN df
    ELSE [rows |-> SelectSeq(df.rows, LAMBDA row : row.upperdeptindex < end_range.int)]

get_school_boxes(self, start_ping, end_ping, start_range, end_range, cats) ==
    LET df == self.school_box_df
        bounded == \E b \in {start_ping, end_ping, start_range, end_range} : b # None
        inwindow == BeforeEndRange(AfterStartRange(BeforeEndPing(
                        AfterStartPing(df, start_ping), end_ping), start_range), end_range)
        defaulted == IF cats = None THEN categories(self) ELSE Return(None)
        isin == Range(SelLabels(Selected(cats, defaulted.value)))
    IN  IF df = None /\ bounded THEN Raise("AttributeError")
        ELSE IF Raised(defaulted) THEN defaulted
        ELSE IF df = None THEN Raise("AttributeError")
        ELSE Return([rows |-> SelectSeq(inwindow.rows, LAMBDA row : row.category \in isin)])

----------------------------------------------------------------------------
(* The surveys on disk that the model draws its cruises from. *)

\* the frequency axis of the backscatter volume
FrequencyAxis == <<18000, 38000>>

\* the labels an annotation volume's category axis is drawn from (-1: no label)
Labels == {-1, 1, 2, 27}

\* the categories of the school boxes: 5000 is on no annotation volume's axis
BoxCategories == {-1, 1, 5000}

DataFiles(extents) ==
    {[frequency |-> FrequencyAxis, ping_time |-> p, range |-> r] : p \in extents, r \in extents}

AnnotationFiles(axes) == {None} \cup {[category |-> a] : a \in axes}

\* the school boxes: startpingindex <= endpingindex, upperdeptindex <= lowerdeptindex
Boxes ==
    {[startpingindex |-> sp, endpingindex |-> ep, upperdeptindex |-> u,
      lowerdeptindex |-> l, category |-> c] :
        sp \in 0..MaxIdx, ep \in 0..MaxIdx, u \in 0..MaxIdx, l \in 0..MaxIdx,
        c \in BoxCategories}

\* no table, an empty table, a table of one box, and a table of a box that is
\* not of category 1 followed by its copy of category 1
BoxFiles ==
    LET boxes == {x \in Boxes : x.startpingindex <= x.endpingindex
                                /\ x.upperdeptindex <= x.lowerdeptindex}
    IN  {None, [rows |-> <<>>]}
        \cup {[rows |-> <<b>>] : b \in boxes}
        \cup {[rows |-> <<b, [b EXCEPT !.category = 1]>>] :
                  b \in {x \in boxes : x.category # 1}}

Configs ==
    [require_annotations : BOOLEAN, require_school_boxes : BOOLEAN]

\* the state after Cruise(config) over the files of a survey directory
InitCruise(data, annotation, boxes) ==
    /\ \E config \in Configs :
          \E files \in [data : data, annotations : annotation, school_boxes : boxes] :
              /\ Constructed(config, files)
              /\ cruise = NewCruise(config, files)
    /\ call = None
    /\ ret = None
    /\ cruise_list = None
    /\ sampler = None
    /\ descriptor = None

----------------------------------------------------------------------------
(* The operations of a Cruise, each called with arguments of small sets. *)

SliceArgs(n) == {None} \cup {PyInt(i) : i \in (0 - n - 1)..(n + 1)}

FrequencyArgs ==
    {None, PyInt(38000), PyList(<<38000, 18000>>), PyList(<<18000, 70000>>)}

CategoryArgs ==
    {None, PyInt(1), PyList(<<1>>), PyList(<<-1>>), PyList(<<5000>>),
     PyList(<<1, 5000>>)}

WindowArgs == {None} \cup {PyInt(i) : i \in 0..(MaxIdx + 1)}

\* an operation is called when the previous call's result has been taken
Idle == call = None

Called(c, r) ==
    /\ call' = c
    /\ ret' = r
    /\ UNCHANGED <<cruise, cruise_list, sampler, descriptor>>

\* the caller takes the result; the cruise itself is read-only
TakeResult ==
    /\ call # None
    /\ call' = None
    /\ ret' = None
    /\ UNCHANGED <<cruise, cruise_list, sampler, descriptor>>

AnnotationsAvailable ==
    Idle /\ Called([op |-> "annotations_available"], Return(annotations_available(cruise)))

SchoolBoxesAvailable ==
    Idle /\ Called([op |-> "school_boxes_available"], Return(school_boxes_available(cruise)))

Categories ==
    Idle /\ Called([op |-> "categories"], categories(cruise))

GetSvSlice ==
    /\ Idle
    /\ \E start_ping, end_ping \in SliceArgs(num_pings(cruise)) :
      \E start_range, end_range \in SliceArgs(num_ranges(cruise)) :
        \E freqs \in FrequencyArgs :
          Called([op |-> "get_sv_slice", start_ping |-> start_ping, end_ping |-> end_ping,
                  start_range |-> start_range, end_range |-> end_range,
                  selection |-> freqs],
                 get_sv_slice(cruise, start_ping, end_ping, start_range, end_range, freqs))

GetAnnotationSlice ==
    /\ Idle
    /\ \E start_ping, end_ping \in SliceArgs(num_pings(cruise)) :
      \E start_range, end_range \in SliceArgs(num_ranges(cruise)) :
        \E cats \in CategoryArgs :
          Called([op |-> "get_annotation_slice", start_ping |-> start_ping,
                  end_ping |-> end_ping, start_range |-> start_range,
                  end_range |-> end_range, selection |-> cats],
                 get_annotation_slice(cruise, start_ping, end_ping, start_range,
                                      end_range, cats))

GetSchoolBoxes ==
    /\ Idle
    /\ \E start_ping, end_ping, start_range, end_range \in WindowArgs :
      \E cats \in CategoryArgs :
        Called([op |-> "get_school_boxes", start_ping |-> start_ping,
                end_ping |-> end_ping, start_range |-> start_range,
                end_range |-> end_range, selection |-> cats],
               get_school_boxes(cruise, start_ping, end_ping, start_range, end_range, cats))

\* the category list of a survey: its annotation volume's axis, in any order
InitCategories ==
    InitCruise(DataFiles({1}), AnnotationFiles(UniqueSeqs(Labels, MaxCats)),
               {None, [rows |-> <<>>]})

NextCategories == Categories \/ AnnotationsAvailable \/ SchoolBoxesAvailable \/ TakeResult

SpecCategories == InitCategories /\ [][NextCategories]_vars

\* the slices of the backscatter and annotation volumes
InitSlice ==
    InitCruise(DataFiles(1..MaxExtent), AnnotationFiles({<<2, -1, 1>>}), {None})

NextSlice == GetSvSlice \/ GetAnnotationSlice \/ Categories \/ TakeResult

SpecSlice == InitSlice /\ [][NextSlice]_vars

\* the school boxes of a window
InitBoxes ==
    InitCruise(DataFiles({MaxIdx + 1}), AnnotationFiles({<<2, -1, 1>>}), BoxFiles)

NextBoxes ==
    GetSchoolBoxes \/ Categories \/ SchoolBoxesAvailable \/ AnnotationsAvailable \/ TakeResult

SpecBoxes == InitBoxes /\ [][NextBoxes]_vars

----------------------------------------------------------------------------
(* The patch cropper (utils/cropping.py). *)

\* the sizes of a patch are in 1..MaxPatch
MaxPatch == 3

\* array elements: a number, or NaN (the default boundary value)
Num(x) == [num |-> x]
NaN == [nan |-> TRUE]

\* the content of the volumes: every pixel holds a value of its own
SvAt(f, p, r) == Num(f + 10 * p + r)
AnnotationAt(c, p, r) == Num(100 * c + 10 * p + r)
VolumeAt(volume, l, p, r) == IF volume = "sv" THEN SvAt(l, p, r) ELSE AnnotationAt(l, p, r)

\* the window of a patch on one axis: it starts size // 2 before the center
\* and is size long (for an even size it ends at center + size // 2)
WindowStart(center, size) == center - size \div 2
WindowEnd(center, size) == WindowStart(center, size) + size

\* the part of the window inside an axis of n elements (empty: lo = hi)
ClipLo(center, size) == Max(WindowStart(center, size), 0)
ClipHi(center, size, n) == Max(ClipLo(center, size), Min(WindowEnd(center, size), n))

\* the output array: boundary_val everywhere, and the slice read from the
\* survey copied to its offset in the window
Padded(read, labels, volume, center, patch_size, boundary_val) ==
    LET off_p == ClipLo(center[1], patch_size[1]) - WindowStart(center[1], patch_size[1])
        off_r == ClipLo(center[2], patch_size[2]) - WindowStart(center[2], patch_size[2])
    IN  [s \in 1..Len(labels) |->
          [i \in 0..(patch_size[1] - 1) |->
            [j \in 0..(patch_size[2] - 1) |->
                IF /\ i - off_p + 1 \in DOMAIN read.ping_time
                   /\ j - off_r + 1 \in DOMAIN read.range
                THEN VolumeAt(volume, labels[s], read.ping_time[i - off_p + 1],
                              read.range[j - off_r + 1])
                ELSE boundary_val]]]

crop_data(survey, center, patch_size, freqs, boundary_val) ==
    LET read == get_sv_slice(survey,
                    PyInt(ClipLo(center[1], patch_size[1])),
                    PyInt(ClipHi(center[1], patch_size[1], num_pings(survey))),
                    PyInt(ClipLo(center[2], patch_size[2])),
                    PyInt(ClipHi(center[2], patch_size[2], num_ranges(survey))),
                    freqs)
    IN  IF Raised(read) THEN read
        ELSE Return(Padded(read.value, SelLabels(read.value.frequency), "sv",
                           center, patch_size, boundary_val))

crop_annotations(survey, center, patch_size, cats, boundary_val) ==
    LET read == get_annotation_slice(survey,
                    PyInt(ClipLo(center[1], patch_size[1])),
                    PyInt(ClipHi(center[1], patch_size[1], num_pings(survey))),
                    PyInt(ClipLo(center[2], patch_size[2])),
                    PyInt(ClipHi(center[2], patch_size[2], num_ranges(survey))),
                    cats)
    IN  IF ~annotations_available(survey) THEN Raise("DataUnavailable")
        ELSE IF Raised(read) THEN read
        ELSE Return(Padded(read.value, SelLabels(read.value.category), "annotation",
                           center, patch_size, boundary_val))

Centers(n) == (0 - 2)..(n + 2)
PatchSizes == (1..MaxPatch) \X (1..MaxPatch)
BoundaryVals == {NaN, Num(-100)}

CropData ==
    /\ Idle
    /\ \E center \in Centers(num_pings(cruise)) \X Centers(num_ranges(cruise)) :
       \E patch_size \in PatchSizes :
       \E freqs \in {None, PyInt(38000), PyList(<<38000, 18000>>)} :
       \E boundary_val \in BoundaryVals :
          Called([op |-> "crop_data", center |-> center, patch_size |-> patch_size,
                  selection |-> freqs, boundary_val |-> boundary_val],
                 crop_data(cruise, center, patch_size, freqs, boundary_val))

CropAnnotations ==
    /\ Idle
    /\ \E center \in Centers(num_pings(cruise)) \X Centers(num_ranges(cruise)) :
       \E patch_size \in PatchSizes :
       \E cats \in {None, PyInt(1), PyList(<<2, 1>>)} :
       \E boundary_val \in BoundaryVals :
          Called([op |-> "crop_annotations", center |-> center, patch_size |-> patch_size,
                  selection |-> cats, boundary_val |-> boundary_val],
                 crop_annotations(cruise, center, patch_size, cats, boundary_val))

InitCrop ==
    InitCruise(DataFiles(1..MaxExtent), AnnotationFiles({<<2, -1, 1>>}), {None})

NextCrop == CropData \/ CropAnnotations \/ TakeResult

SpecCrop == InitCrop /\ [][NextCrop]_vars

----------------------------------------------------------------------------
(* The samplers (samplers/gridded.py, samplers/random.py). *)

\* a cruise_list has 1..MaxCruises cruises
MaxCruises == 2
\* num_pings and num_ranges of a cruise of a cruise_list are in 1..MaxGridExtent
MaxGridExtent == 3
\* a Random sampler is built with num_samples in 0..MaxSamples
MaxSamples == 2
\* the model follows a Random sampler for MaxDraws draws
MaxDraws == 3

\* the cruises of a cruise_list: backscatter only
SamplerCruises ==
    {NewCruise([require_annotations |-> FALSE, require_school_boxes |-> FALSE],
               [data |-> d, annotations |-> None, school_boxes |-> None]) :
        d \in DataFiles(1..MaxGridExtent)}

RECURSIVE SeqsUpTo(_, _)
SeqsUpTo(S, n) ==
    IF n = 0 THEN {<<>>}
    ELSE LET shorter == SeqsUpTo(S, n - 1)
         IN  shorter \cup {Append(q, x) : q \in shorter, x \in S}

CruiseLists == SeqsUpTo(SamplerCruises, MaxCruises) \ {<<>>}

\* the stride of the grid on an axis
Stride(size, overlap) == size - overlap

\* the tiles along an axis of n elements: from origin 0 by the stride until
\* a tile reaches the end of the axis
NumTiles(n, size, stride) ==
    IF n <= size THEN 1 ELSE (n - size + stride - 1) \div stride + 1

\* Gridded.__len__: the tiles of every cruise
RECURSIVE SumTiles(_, _, _)
SumTiles(cruises, patch_size, patch_overlap) ==
    IF cruises = <<>> THEN 0
    ELSE NumTiles(num_pings(Head(cruises)), patch_size[1],
                  Stride(patch_size[1], patch_overlap))
           * NumTiles(num_ranges(Head(cruises)), patch_size[2],
                      Stride(patch_size[2], patch_overlap))
         + SumTiles(Tail(cruises), patch_size, patch_overlap)

len(self) ==
    IF self.kind = "Random" THEN self.num_samples
    ELSE SumTiles(self.cruise_list, self.patch_size, self.patch_overlap)

\* Gridded(cruise_list, patch_size, patch_overlap): the iteration starts at
\* the first cruise's tile of origin (0, 0)
InitGrid ==
    /\ \E cl \in CruiseLists :
       \E patch_size \in PatchSizes :
       \E patch_overlap \in 0..(MaxPatch - 1) :
          /\ Stride(patch_size[1], patch_overlap) >= 1
          /\ Stride(patch_size[2], patch_overlap) >= 1
          /\ cruise_list = cl
          /\ sampler = [kind |-> "Gridded", cruise_list |-> cl, patch_size |-> patch_size,
                        patch_overlap |-> patch_overlap,
                        cruise_idx |-> 1, origin_ping |-> 0, origin_range |-> 0,
                        exhausted |-> FALSE]
    /\ descriptor = <<>>
    /\ cruise = None
    /\ call = None
    /\ ret = None

\* the iterator yields the tile at its origin and moves on: along the range
\* axis, then along the ping axis, then to the next cruise
GridYield ==
    /\ sampler.kind = "Gridded"
    /\ ~sampler.exhausted
    /\ sampler.cruise_idx <= Len(cruise_list)
    /\ LET c == cruise_list[sampler.cruise_idx]
           h == sampler.patch_size[1]
           w == sampler.patch_size[2]
       IN  /\ descriptor' = Append(descriptor,
                                [cruise |-> sampler.cruise_idx,
                                 center_ping |-> sampler.origin_ping + h \div 2,
                                 center_range |-> sampler.origin_range + w \div 2])
           /\ sampler' =
                IF sampler.origin_range + w < num_ranges(c)
                THEN [sampler EXCEPT !.origin_range = @ + Stride(w, sampler.patch_overlap)]
                ELSE IF sampler.origin_ping + h < num_pings(c)
                THEN [sampler EXCEPT !.origin_range = 0,
                                     !.origin_ping = @ + Stride(h, sampler.patch_overlap)]
                ELSE [sampler EXCEPT !.origin_range = 0, !.origin_ping = 0,
                                     !.cruise_idx = @ + 1]
    /\ UNCHANGED <<cruise, call, ret, cruise_list>>

\* past the last cruise the iteration stops
GridStop ==
    /\ sampler.kind = "Gridded"
    /\ ~sampler.exhausted
    /\ sampler.cruise_idx > Len(cruise_list)
    /\ sampler' = [sampler EXCEPT !.exhausted = TRUE]
    /\ UNCHANGED <<cruise, call, ret, cruise_list, descriptor>>

NextGrid == GridYield \/ GridStop

SpecGrid == InitGrid /\ [][NextGrid]_vars

\* Random(cruise_list, num_samples)
InitRandom ==
    /\ \E cl \in CruiseLists :
       \E num_samples \in 0..MaxSamples :
          /\ cruise_list = cl
          /\ sampler = [kind |-> "Random", cruise_list |-> cl, num_samples |-> num_samples,
                        draws |-> 0]
          /\ call = [op |-> "Random", num_samples |-> num_samples]
    /\ descriptor = <<>>
    /\ cruise = None
    /\ ret = None

\* randint(low, high): any integer from low up to, not including, high
randint(low, high) == low..(high - 1)

\* a call of the sampler draws a cruise, and a center inside it
RandomDraw ==
    /\ sampler.kind = "Random"
    /\ sampler.draws < MaxDraws
    /\ \E idx \in randint(0, Len(cruise_list)) :
       \E center_ping \in randint(0, num_pings(cruise_list[idx + 1])) :
       \E center_range \in randint(0, num_ranges(cruise_list[idx + 1])) :
          descriptor' = <<[cruise |-> idx + 1, center_ping |-> center_ping,
                           center_range |-> center_range]>>
    /\ sampler' = [sampler EXCEPT !.draws = @ + 1]
    /\ UNCHANGED <<cruise, call, ret, cruise_list>>

NextRandom == RandomDraw

SpecRandom == InitRandom /\ [][NextRandom]_vars

----------------------------------------------------------------------------
(* Properties of the Cruise. *)

IsCall(op) == call # None /\ call.op = op

\* the categories a call selects: its list, or categories() by default
SelectedCategories ==
    IF call.selection = None THEN Range(categories(cruise).value)
    ELSE Range(SelLabels(call.selection))

AllBoundsGiven ==
    /\ call.start_ping # None
    /\ call.end_ping # None
    /\ call.start_range # None
    /\ call.end_range # None

\* C1 as stated: with all four bounds given, get_school_boxes keeps a row of
\* the table iff its category is selected and endpingindex > start_ping,
\* startpingindex < end_ping, lowerdeptindex > start_range and
\* upperdeptindex < end_range.
C1_Strict ==
    (IsCall("get_school_boxes") /\ AllBoundsGiven /\ Returned(ret)) =>
        \A row \in Range(cruise.school_box_df.rows) :
            row \in Range(ret.value.rows) <=>
                /\ row.category \in SelectedCategories
                /\ row.endpingindex > call.start_ping.int
                /\ row.startpingindex < call.end_ping.int
                /\ row.lowerdeptindex > call.start_range.int
                /\ row.upperdeptindex < call.end_range.int

\* C1, amended: with all four bounds given, the table get_school_boxes returns
\* holds a row of the table iff its category is selected and
\* endpingindex >= start_ping, startpingindex < end_ping,
\* lowerdeptindex >= start_range and upperdeptindex < end_range: a box whose
\* endpingindex equals start_ping, or whose lowerdeptindex equals start_range,
\* is kept.
C1_Inclusive ==
    (IsCall("get_school_boxes") /\ AllBoundsGiven /\ Returned(ret)) =>
        \A row \in Range(cruise.school_box_df.rows) :
            row \in Range(ret.value.rows) <=>
                /\ row.category \in SelectedCategories
                /\ row.endpingindex >= call.start_ping.int
                /\ row.startpingindex < call.end_ping.int
                /\ row.lowerdeptindex >= call.start_range.int
                /\ row.upperdeptindex < call.end_range.int

\* a box that ends on the window's first ping and is returned
C1_AbuttingBoxKept ==
    /\ IsCall("get_school_boxes") /\ AllBoundsGiven /\ Returned(ret)
    /\ \E row \in Range(ret.value.rows) :
          /\ row.endpingindex = call.start_ping.int
          /\ row.lowerdeptindex > call.start_range.int

\* the rows of the table inside the call's window, whatever their category
InWindow ==
    BeforeEndRange(AfterStartRange(BeforeEndPing(AfterStartPing(
        cruise.school_box_df, call.start_ping), call.end_ping),
        call.start_range), call.end_range).rows

\* C3: the boxes returned with categories=[k] are a subset of the boxes
\* returned for the same window with categories=None, and are exactly the
\* rows in the window whose category is k, for any k (the sentinel -1 and a
\* category absent from the annotation category list included).
C3_SubsetOfUnfiltered ==
    (/\ IsCall("get_school_boxes")
     /\ cruise.school_box_df # None
     /\ call.selection # None
     /\ ~IsInt(call.selection)
     /\ Len(call.selection.list) = 1) =>
        LET k == call.selection.list[1]
            unfiltered == get_school_boxes(cruise, call.start_ping, call.end_ping,
                                           call.start_range, call.end_range, None)
        IN  /\ Returned(ret)
            /\ Returned(unfiltered)
            /\ Range(ret.value.rows) \subseteq Range(unfiltered.value.rows)
            /\ ret.value.rows = SelectSeq(InWindow, LAMBDA row : row.category = k)

\* a selection that names an identifier outside the survey's catalog
UnknownFrequency ==
    call.selection # None /\ ~(Range(SelLabels(call.selection)) \subseteq Range(frequencies(cruise)))

UnknownCategory ==
    /\ call.selection # None
    /\ Returned(categories(cruise))
    /\ ~(Range(SelLabels(call.selection)) \subseteq Range(categories(cruise).value))

\* C4: on a survey whose annotations are missing, categories() and
\* get_annotation_slice(...) fail with the data-unavailable error (the
\* FileNotFoundError that categories() raises), and so does
\* get_school_boxes(...) on a survey whose school-box table is missing,
\* whatever the arguments.
C4_DataUnavailable ==
    /\ ((IsCall("categories") \/ IsCall("get_annotation_slice")) /\ cruise.annotations = None)
           => ret = Raise("FileNotFoundError")
    /\ (IsCall("get_school_boxes") /\ cruise.school_box_df = None)
           => ret = Raise("FileNotFoundError")

\* C5: a selection that names an identifier outside the survey's catalog
\* fails: get_sv_slice with a frequency not in frequencies(), and
\* get_annotation_slice and get_school_boxes with a category not in
\* categories(), raise instead of returning a result.
C5_UnknownIdentifierRaises ==
    /\ (IsCall("get_sv_slice") /\ UnknownFrequency) => Raised(ret)
    /\ (IsCall("get_annotation_slice") /\ UnknownCategory) => Raised(ret)
    /\ (IsCall("get_school_boxes") /\ cruise.school_box_df # None /\ UnknownCategory)
           => Raised(ret)

StrictlyAscending(s) == \A i \in 1..(Len(s) - 1) : s[i] < s[i + 1]

\* C6: with annotations loaded, categories() returns the labels of the
\* category axis other than -1, each of them and never -1, in strictly
\* ascending order, whatever their order on the axis.
C6_CategoriesAscending ==
    (IsCall("categories") /\ cruise.annotations # None) =>
        /\ Returned(ret)
        /\ StrictlyAscending(ret.value)
        /\ Range(ret.value) = Range(cruise.annotations.category) \ {-1}

\* categories() on an axis that is not ascending and holds -1
C6_UnorderedAxisSorted ==
    /\ IsCall("categories")
    /\ cruise.annotations # None
    /\ -1 \in Range(cruise.annotations.category)
    /\ ~StrictlyAscending(cruise.annotations.category)
    /\ Returned(ret)
    /\ Len(ret.value) >= 2

\* C9: the availability predicates are sufficient: where
\* school_boxes_available() is true, get_school_boxes with categories=None
\* returns a table, whether or not annotations were loaded; where
\* annotations_available() is true, categories() and get_annotation_slice
\* raise no data-unavailable error.
C9_AvailableMeansCallable ==
    /\ (/\ IsCall("get_school_boxes")
        /\ school_boxes_available(cruise)
        /\ call.selection = None) => Returned(ret)
    /\ ((IsCall("categories") \/ IsCall("get_annotation_slice"))
        /\ annotations_available(cruise)) => ret # Raise("FileNotFoundError")

IsSliceCall == IsCall("get_sv_slice") \/ IsCall("get_annotation_slice")

\* the indices of an axis of n elements from start up to, not including, stop
Between(s, start, stop, n) ==
    /\ StrictlyAscending(s)
    /\ Range(s) = {p \in 0..(n - 1) : start <= p /\ p < stop}

\* C10 as stated: for all integer bounds, negative ones and ones past the
\* extent included, the slices return exactly the pixels of
\* [start_ping, end_ping) and [start_range, end_range) that the survey has,
\* in ascending order.
C10_Clipped ==
    (IsSliceCall /\ Returned(ret) /\ AllBoundsGiven) =>
        /\ Between(ret.value.ping_time, call.start_ping.int, call.end_ping.int,
                   num_pings(cruise))
        /\ Between(ret.value.range, call.start_range.int, call.end_range.int,
                   num_ranges(cruise))

\* a bound as the slices read it: a negative one counts from the end
FromEnd(b, n) == IF b.int < 0 THEN b.int + n ELSE b.int

\* C10, amended: a non-negative bound (one past the extent included) stands
\* for itself and a negative bound b for b + extent; the slices return, in
\* ascending order, exactly the survey's pixels from the start bound up to,
\* not including, the end bound on each axis. With the range bounds omitted
\* both operations return all num_ranges range bins, and both give the same
\* ping and range extents for the same arguments.
C10_FromEnd ==
    /\ (IsSliceCall /\ Returned(ret) /\ AllBoundsGiven) =>
          /\ Between(ret.value.ping_time, FromEnd(call.start_ping, num_pings(cruise)),
                     FromEnd(call.end_ping, num_pings(cruise)), num_pings(cruise))
          /\ Between(ret.value.range, FromEnd(call.start_range, num_ranges(cruise)),
                     FromEnd(call.end_range, num_ranges(cruise)), num_ranges(cruise))
    /\ (/\ IsSliceCall /\ Returned(ret)
        /\ call.start_range = None /\ call.end_range = None) =>
          ret.value.range = [i \in 1..num_ranges(cruise) |-> i - 1]
    /\ (IsCall("get_sv_slice") /\ Returned(ret)) =>
          LET other == get_annotation_slice(cruise, call.start_ping, call.end_ping,
                                            call.start_range, call.end_range, None)
          IN  Returned(other) =>
                  /\ other.value.ping_time = ret.value.ping_time
                  /\ other.value.range = ret.value.range

\* a slice from a negative start_ping: the survey's last ping alone
C10_NegativeStartCountsFromEnd ==
    /\ IsSliceCall /\ Returned(ret) /\ AllBoundsGiven
    /\ num_pings(cruise) >= 2
    /\ call.start_ping = PyInt(-1)
    /\ call.end_ping = PyInt(num_pings(cruise))
    /\ ret.value.ping_time = <<num_pings(cruise) - 1>>

----------------------------------------------------------------------------
(* Properties of the patch cropper. *)

IsCropCall == IsCall("crop_data") \/ IsCall("crop_annotations")

\* the labels a crop selects along its first axis
CropLabels ==
    IF call.selection # None THEN SelLabels(call.selection)
    ELSE IF IsCall("crop_data") THEN frequencies(cruise)
    ELSE categories(cruise).value

\* the survey's value at a pixel
SurveyAt(l, p, r) == IF IsCall("crop_data") THEN SvAt(l, p, r) ELSE AnnotationAt(l, p, r)

InSurvey(p, r) ==
    /\ 0 <= p /\ p < cruise.data.ping_time
    /\ 0 <= r /\ r < cruise.data.range

----------------------------------------------------------------------------
(* Properties of the samplers. *)

\* the pixels of the tile a descriptor names
TilePings(d) ==
    LET start == WindowStart(d.center_ping, sampler.patch_size[1])
    IN  start..(start + sampler.patch_size[1] - 1)

TileRanges(d) ==
    LET start == WindowStart(d.center_range, sampler.patch_size[2])
    IN  start..(start + sampler.patch_size[2] - 1)

Yielded == Range(descriptor)

\* the tiles along an axis of n elements, counted one by one
RECURSIVE CountTiles(_, _, _, _)
CountTiles(origin, n, size, stride) ==
    IF origin + size >= n THEN 1 ELSE 1 + CountTiles(origin + stride, n, size, stride)

RECURSIVE SumCounted(_)
SumCounted(cruises) ==
    IF cruises = <<>> THEN 0
    ELSE CountTiles(0, Head(cruises).data.ping_time, sampler.patch_size[1],
                    Stride(sampler.patch_size[1], sampler.patch_overlap))
           * CountTiles(0, Head(cruises).data.range, sampler.patch_size[2],
                        Stride(sampler.patch_size[2], sampler.patch_overlap))
         + SumCounted(Tail(cruises))

\* C7: iterating a Gridded sampler ends after exactly len(sampler)
\* descriptors, len(sampler) is the sum over the cruises of (tiles along
\* ping) x (tiles along range), and every pixel of every cruise lies in a
\* yielded tile, also when the extent is no multiple of the stride.
C7_GridCovers ==
    /\ len(sampler) = SumCounted(cruise_list)
    /\ Len(descriptor) <= len(sampler)
    /\ sampler.exhausted \/ ENABLED NextGrid
    /\ sampler.exhausted =>
          /\ Len(descriptor) = len(sampler)
          /\ \A c \in DOMAIN cruise_list :
             \A p \in 0..(cruise_list[c].data.ping_time - 1) :
             \A r \in 0..(cruise_list[c].data.range - 1) :
                \E d \in Yielded :
                    d.cruise = c /\ p \in TilePings(d) /\ r \in TileRanges(d)

\* an exhausted grid over an extent that is no multiple of the stride
C7_UnevenGridDone ==
    /\ sampler.exhausted
    /\ Len(cruise_list) = 2
    /\ sampler.patch_size = <<2, 2>>
    /\ sampler.patch_overlap = 0
    /\ \E c \in DOMAIN cruise_list :
          cruise_list[c].data.ping_time = 3 /\ cruise_list[c].data.range = 2
    /\ Len(descriptor) >= 3

\* C8: len(Random(cruise_list, N)) is N, before and after any draw, and a
\* draw returns a descriptor whose cruise is a member of cruise_list and
\* whose center_ping and center_range are inside that cruise:
\* 0 <= center_ping < num_pings and 0 <= center_range < num_ranges.
C8_RandomInside ==
    /\ len(sampler) = call.num_samples
    /\ \A d \in Range(descriptor) :
          /\ DOMAIN d = {"cruise", "center_ping", "center_range"}
          /\ d.cruise \in DOMAIN cruise_list
          /\ 0 <= d.center_ping
          /\ d.center_ping < cruise_list[d.cruise].data.ping_time
          /\ 0 <= d.center_range
          /\ d.center_range < cruise_list[d.cruise].data.range

\* after some draws of a sampler of length 0 over two cruises, a draw from
\* the second cruise at its last pixel
C8_DrawnLastPixel ==
    /\ sampler.draws >= 2
    /\ call.num_samples = 0
    /\ Len(cruise_list) = 2
    /\ \E d \in Range(descriptor) :
          /\ d.cruise = 2
          /\ d.center_ping = cruise_list[2].data.ping_time - 1
          /\ d.center_range = cruise_list[2].data.range - 1
          /\ d.center_ping # d.center_range

====
